---------------------------- MODULE Spec2Model ----------------------------
(***************************************************************************)
(* Model of src/get_replies.py: YouTubeChatScraper, the chat harvesting    *)
(* session (scrape), its deduplication (process_chat_message) and its      *)
(* batched CSV persistence (write_batch_to_csv).                           *)
(*                                                                         *)
(* Strings of the program are TLA+ strings; get_unique_id concatenates     *)
(* them as the f-string does.  The output file is the sequence of its      *)
(* rows, a row being the sequence of its fields.  Everything the browser   *)
(* decides (which entries are visible, whether an element is found, how    *)
(* long a call takes, whether a file write fails) is an input drawn from a *)
(* small set.                                                              *)
(***************************************************************************)
EXTENDS Integers, Sequences, FiniteSets, TLC

(***************************************************************************)
(* Bounds of the model.                                                    *)
(***************************************************************************)
\* YouTubeChatScraper.BATCH_SIZE is 500 in the source (get_replies.py:28);
\* the model runs the same code with a small capacity.
BATCH_SIZE == 2
\* most entries find_elements returns in one polling iteration
MaxItems == 2
\* most polling iterations of one session
MaxIterations == 4
\* most flush attempts that fail in one session
MaxFailedFlushes == 2

(***************************************************************************)
(* Program constants.                                                      *)
(***************************************************************************)
DEFAULT_DURATION == 14400
WAIT_TIMEOUT == 20
POLL_INTERVAL == 1

(***************************************************************************)
(* Inputs.                                                                 *)
(***************************************************************************)
\* texts of #author-name, #timestamp and #message; "_" is the character
\* get_unique_id joins with
Authors    == {"a", "a_"}
Timestamps == {"b", "_b"}
Bodies     == {"m"}
\* texts of span.ytp-time-current
Positions  == {"0:01", "0:02"}
\* a part of the duration label that int() rejects
NotANumber == -1
\* span.ytp-time-duration's text after split(':'), each part the value
\* int() gives it
DurationLabels ==
    { <<0, 1>>, <<0, 0, 2>>, <<5>>, <<0, NotANumber>> }
\* time a polling iteration takes beyond its sleep, in seconds: none, or
\* as long as the longest session
Delays == {0, 14400}

\* a visible yt-live-chat-text-message-renderer: found = FALSE is an entry
\* whose find_element raises NoSuchElement / StaleElementReference
Entries ==
    [found : {TRUE}, author : Authors, timestamp : Timestamps, message : Bodies]
    \cup
    [found : {FALSE}, author : {""}, timestamp : {""}, message : {""}]

HEADER == <<"Video Time", "Commenter", "Time", "Comment">>
\* the rows of an output file left by an earlier run
OLD_ROWS == <<HEADER, <<"9:59", "old", "9:58", "old">>>>

VARIABLES
    pc,               \* position of scrape
    result,           \* "running", "returned" or "raised": how scrape ended
    duration_seconds, \* scrape's local
    elapsed,          \* time.time() - start_time
    video_time,       \* position read in the current iteration
    remaining,        \* entries of the current iteration not yet processed
    seen_messages,
    current_batch,
    total_messages,
    file_exists,      \* the output file
    file_rows,
    quits,            \* calls of driver.quit
    \* history, read by the properties only
    accepted,         \* the messages accepted, in admission order
    iterations,       \* polling iterations begun
    flushes,          \* calls of write_batch_to_csv
    failed_flushes,   \* those that raised
    last_iteration,   \* how the latest iteration went
    last_call,        \* the latest candidate and what became of it
    resolved          \* whether get_video_duration parsed the label

vars == << pc, result, duration_seconds, elapsed, video_time, remaining,
           seen_messages, current_batch, total_messages, file_exists,
           file_rows, quits, accepted, iterations, flushes, failed_flushes,
           last_iteration, last_call, resolved >>

session == << seen_messages, current_batch, total_messages, accepted >>
output  == << file_exists, file_rows >>
flushlog == << flushes, failed_flushes >>

(***************************************************************************)
(* ChatMessage                                                             *)
(***************************************************************************)
ChatMessage(vt, a, ts, msg) ==
    [video_time |-> vt, author |-> a, timestamp |-> ts, message |-> msg]

to_csv_row(m) == << m.video_time, m.author, m.timestamp, m.message >>

\* a fingerprint that takes the playback position in
get_unique_id_with_position(m) ==
    m.video_time \o "_" \o m.author \o "_" \o m.timestamp \o "_" \o m.message

get_unique_id(m) == m.author \o "_" \o m.timestamp \o "_" \o m.message

RECURSIVE Rows(_)
Rows(batch) ==
    IF batch = << >> THEN << >>
    ELSE << to_csv_row(Head(batch)) >> \o Rows(Tail(batch))


(***************************************************************************)
(* write_batch_to_csv                                                      *)
(***************************************************************************)
\* a threshold one message late
WriteMode_late(total) == IF total > BATCH_SIZE + 1 THEN "a" ELSE "w"

\* line 67: the open mode is decided from the running count
WriteMode(total) == IF total > BATCH_SIZE THEN "a" ELSE "w"

\* lines 72-76: what one call writes, in order
LinesToWrite(batch, total) ==
    (IF WriteMode(total) = "w" THEN << HEADER >> ELSE << >>) \o Rows(batch)

\* How a call can go: it succeeds, open() raises, or a write raises after
\* `written` of the lines reached the file.
WriteOutcomes(batch, total) ==
    { [kind |-> "ok", written |-> Len(LinesToWrite(batch, total))],
      [kind |-> "open_failed", written |-> 0] }
    \cup
    { [kind |-> "write_failed", written |-> k] :
        k \in 0 .. (Len(LinesToWrite(batch, total)) - 1) }

\* the file's rows once open() has succeeded: "w" truncates, "a" keeps
RowsAfterOpen(exists, rows, total) ==
    IF WriteMode(total) = "a" /\ exists THEN rows ELSE << >>

\* lines 65-83.  The result: the file, the batch, and whether it raised.
write_batch_to_csv(exists, rows, batch, total, outcome) ==
    IF outcome.kind = "open_failed"
    THEN [file_exists |-> exists, file_rows |-> rows,
          current_batch |-> batch, raised |-> TRUE]
    ELSE [file_exists |-> TRUE,
          file_rows |-> RowsAfterOpen(exists, rows, total)
                        \o SubSeq(LinesToWrite(batch, total), 1, outcome.written),
          current_batch |-> IF outcome.kind = "ok" THEN << >> ELSE batch,
          raised |-> outcome.kind # "ok"]

\* the outcomes the model lets a flush have: failures are capped
AllowedOutcomes(batch, total) ==
    { o \in WriteOutcomes(batch, total) :
        o.kind = "ok" \/ failed_flushes < MaxFailedFlushes }

(***************************************************************************)
(* get_video_duration                                                      *)
(***************************************************************************)
\* lines 91-96 on the parts of the label; a part int() rejects and a
\* missing third part raise, and line 100 answers for both
ParsedDuration(parts) ==
    IF \E i \in 1 .. Len(parts) : i <= 3 /\ parts[i] = NotANumber
    THEN NotANumber
    ELSE IF Len(parts) = 2 THEN parts[1] * 60 + parts[2]
    ELSE IF Len(parts) >= 3 THEN parts[1] * 3600 + parts[2] * 60 + parts[3]
    ELSE NotANumber

\* a fallback that covers the missing element only
get_video_duration_unguarded(found, parts) ==
    IF found THEN ParsedDuration(parts) ELSE DEFAULT_DURATION

\* lines 85-100: found = FALSE is wait.until timing out
get_video_duration(found, parts) ==
    IF found /\ ParsedDuration(parts) # NotANumber
    THEN ParsedDuration(parts)
    ELSE DEFAULT_DURATION

Known(found, parts) == found /\ ParsedDuration(parts) # NotANumber


(***************************************************************************)
(* __init__ (lines 30-37); the output file may be left from an earlier run *)
(***************************************************************************)
Init ==
    /\ pc = "open"
    /\ result = "running"
    /\ duration_seconds = 0
    /\ elapsed = 0
    /\ video_time = ""
    /\ remaining = 0
    /\ seen_messages = {}
    /\ current_batch = << >>
    /\ total_messages = 0
    /\ \/ file_exists = FALSE /\ file_rows = << >>
       \/ file_exists = TRUE /\ file_rows = OLD_ROWS
    /\ quits = 0
    /\ accepted = << >>
    /\ iterations = 0
    /\ flushes = 0
    /\ failed_flushes = 0
    /\ last_iteration = "none"
    /\ last_call = [kind |-> "none", message |-> ChatMessage("", "", "", "")]
    /\ resolved = FALSE

(***************************************************************************)
(* scrape, lines 159-170: STARTING                                         *)
(***************************************************************************)
\* an exception before the loop goes to the handler of line 218
Setup(ok, next) ==
    /\ pc' = IF ok THEN next ELSE "fatal"
    /\ UNCHANGED << result, video_time, remaining, session, output, quits,
                    iterations, flushlog, last_iteration, last_call >>

\* lines 161-162
OpenPage ==
    /\ pc = "open"
    /\ \E ok \in BOOLEAN : Setup(ok, "duration")
    /\ UNCHANGED << duration_seconds, elapsed, resolved >>

\* lines 164-165
GetVideoDuration ==
    /\ pc = "duration"
    /\ \E found \in BOOLEAN, parts \in DurationLabels :
          /\ duration_seconds' = get_video_duration(found, parts)
          /\ resolved' = Known(found, parts)
    /\ Setup(TRUE, "playback")
    /\ UNCHANGED elapsed

\* line 167 (start_video_playback, lines 102-113)
StartVideoPlayback ==
    /\ pc = "playback"
    /\ \E ok \in BOOLEAN : Setup(ok, "frame")
    /\ UNCHANGED << duration_seconds, elapsed, resolved >>

\* lines 168-170 (switch_to_chat_frame, lines 115-126), then start_time
EnterChatFrame ==
    /\ pc = "frame"
    /\ \E ok \in BOOLEAN : Setup(ok, "loop")
    /\ elapsed' = 0
    /\ UNCHANGED << duration_seconds, resolved >>

(***************************************************************************)
(* scrape, lines 172-210: POLLING                                          *)
(***************************************************************************)
\* line 174 lets the body run
InLoop ==
    /\ pc = "loop"
    /\ elapsed < duration_seconds
    /\ iterations < MaxIterations

\* lines 207-210: the handler of an iteration's exception calls
\* switch_to_chat_frame, which raises when the frame is not found within
\* the wait; then `continue`, without the sleep of line 205
RecoverIteration(how, spent) ==
    /\ \E frame_found \in BOOLEAN :
          /\ pc' = IF frame_found THEN "loop" ELSE "fatal"
          /\ elapsed' = elapsed + spent + (IF frame_found THEN 0 ELSE WAIT_TIMEOUT)
    /\ iterations' = iterations + 1
    /\ last_iteration' = how
    /\ UNCHANGED << result, duration_seconds, video_time, remaining, session,
                    output, quits, flushlog, last_call, resolved >>

\* lines 180-184 raise: the position element is not there
PositionReadFails ==
    /\ InLoop
    /\ RecoverIteration("position_failed", 0)

\* line 187 raises: the chat frame is not found within the wait
ChatFrameLost ==
    /\ InLoop
    /\ RecoverIteration("frame_failed", WAIT_TIMEOUT)

\* lines 190-192 raise
ListingFails ==
    /\ InLoop
    /\ RecoverIteration("listing_failed", 0)

\* lines 180-192 succeed: the position is read and the entries are listed
BeginIteration ==
    /\ InLoop
    /\ \E position \in Positions, n \in 0 .. MaxItems :
          /\ video_time' = position
          /\ remaining' = n
    /\ pc' = "items"
    /\ iterations' = iterations + 1
    /\ last_iteration' = "listed"
    /\ UNCHANGED << result, duration_seconds, elapsed, session, output, quits,
                    flushlog, last_call, resolved >>


(***************************************************************************)
(* process_chat_message, lines 128-155                                     *)
(***************************************************************************)
\* a call of write_batch_to_csv on `batch` with the count at `total`
Flush(batch, total, outcome) ==
    LET w == write_batch_to_csv(file_exists, file_rows, batch, total, outcome)
    IN  /\ current_batch' = w.current_batch
        /\ file_exists' = w.file_exists
        /\ file_rows' = w.file_rows
        /\ flushes' = flushes + 1
        /\ failed_flushes' = failed_flushes + (IF w.raised THEN 1 ELSE 0)

\* line 139
IsNew(message) == get_unique_id(message) \notin seen_messages

\* a capacity check that is off by one
BatchFull_above(batch) == Len(batch) > BATCH_SIZE

\* line 148
BatchFull(batch) == Len(batch) >= BATCH_SIZE

\* the capacity check of line 148 made on every call, new message or not
process_chat_message_recheck(item, position) ==
    LET message == ChatMessage(position, item.author, item.timestamp, item.message)
        new     == item.found /\ IsNew(message)
        batch   == IF new THEN Append(current_batch, message) ELSE current_batch
        total   == IF new THEN total_messages + 1 ELSE total_messages
    IN  /\ last_call' = [kind |-> IF new THEN "accepted"
                                  ELSE IF item.found THEN "duplicate"
                                  ELSE "unreadable",
                         message |-> message]
        /\ seen_messages' = IF new THEN seen_messages \cup {get_unique_id(message)}
                                   ELSE seen_messages
        /\ total_messages' = total
        /\ accepted' = IF new THEN Append(accepted, message) ELSE accepted
        /\ IF item.found /\ BatchFull(batch)
           THEN \E outcome \in AllowedOutcomes(batch, total) :
                   Flush(batch, total, outcome)
           ELSE /\ current_batch' = batch
                /\ UNCHANGED << output, flushlog >>

\* seen_messages and total_messages started afresh with each full batch
process_chat_message_forgetful(item, position) ==
    LET message == ChatMessage(position, item.author, item.timestamp, item.message)
        batch   == Append(current_batch, message)
        total   == total_messages + 1
    IN  IF item.found /\ IsNew(message)
        THEN /\ last_call' = [kind |-> "accepted", message |-> message]
             /\ accepted' = Append(accepted, message)
             /\ IF BatchFull(batch)
                THEN /\ seen_messages' = {}
                     /\ total_messages' = 0
                     /\ \E outcome \in AllowedOutcomes(batch, total) :
                           Flush(batch, total, outcome)
                ELSE /\ seen_messages' = seen_messages \cup {get_unique_id(message)}
                     /\ total_messages' = total
                     /\ current_batch' = batch
                     /\ UNCHANGED << output, flushlog >>
        ELSE /\ last_call' = [kind |-> IF item.found THEN "duplicate"
                                                     ELSE "unreadable",
                               message |-> message]
             /\ UNCHANGED << session, output, flushlog >>

\* An entry whose fields cannot be read raises at lines 133-135 and line
\* 152 passes.  What write_batch_to_csv raises at line 150 is caught at
\* line 154 and logged: the call returns normally.
process_chat_message(item, position) ==
    LET message == ChatMessage(position, item.author, item.timestamp, item.message)
        batch   == Append(current_batch, message)
        total   == total_messages + 1
    IN  IF item.found /\ IsNew(message)
        THEN /\ last_call' = [kind |-> "accepted", message |-> message]
             /\ seen_messages' = seen_messages \cup {get_unique_id(message)}
             /\ total_messages' = total
             /\ accepted' = Append(accepted, message)
             /\ IF BatchFull(batch)
                THEN \E outcome \in AllowedOutcomes(batch, total) :
                        Flush(batch, total, outcome)
                ELSE /\ current_batch' = batch
                     /\ UNCHANGED << output, flushlog >>
        ELSE /\ last_call' = [kind |-> IF item.found THEN "duplicate"
                                                     ELSE "unreadable",
                               message |-> message]
             /\ UNCHANGED << session, output, flushlog >>

\* process_chat_message without its handler of line 152: an entry that
\* cannot be read raises into the handler of line 207 and the rest of the
\* list is dropped
ProcessChatMessage_unguarded ==
    /\ pc = "items"
    /\ remaining > 0
    /\ \E item \in Entries :
          /\ process_chat_message(item, video_time)
          /\ IF item.found
             THEN /\ remaining' = remaining - 1
                  /\ UNCHANGED << pc, last_iteration >>
             ELSE /\ remaining' = 0
                  /\ pc' = "loop"
                  /\ last_iteration' = "listing_failed"
    /\ UNCHANGED << result, duration_seconds, elapsed, video_time, quits,
                    iterations, resolved >>

\* the entries stamped with the position of the candidate before
ProcessChatMessage_stale_position ==
    /\ pc = "items"
    /\ remaining > 0
    /\ \E item \in Entries :
          process_chat_message(item, last_call.message.video_time)
    /\ remaining' = remaining - 1
    /\ UNCHANGED << pc, result, duration_seconds, elapsed, video_time, quits,
                    iterations, last_iteration, resolved >>

\* lines 194-195, one entry of the list
ProcessChatMessage ==
    /\ pc = "items"
    /\ remaining > 0
    /\ \E item \in Entries : process_chat_message(item, video_time)
    /\ remaining' = remaining - 1
    /\ UNCHANGED << pc, result, duration_seconds, elapsed, video_time, quits,
                    iterations, last_iteration, resolved >>

\* lines 197-205: the list is done; the progress report, then the sleep
EndIteration ==
    /\ pc = "items"
    /\ remaining = 0
    /\ \E d \in Delays : elapsed' = elapsed + POLL_INTERVAL + d
    /\ pc' = "loop"
    /\ UNCHANGED << result, duration_seconds, video_time, remaining, session,
                    output, quits, iterations, flushlog, last_iteration,
                    last_call, resolved >>

(***************************************************************************)
(* scrape, lines 173-176 and 212-223: DRAINING, DONE / ABORTED             *)
(***************************************************************************)
\* lines 173-176
LeaveLoop ==
    /\ pc = "loop"
    /\ elapsed >= duration_seconds
    /\ pc' = "drain"
    /\ UNCHANGED << result, duration_seconds, elapsed, video_time, remaining,
                    session, output, quits, iterations, flushlog,
                    last_iteration, last_call, resolved >>

\* lines 212-216: what the final flush raises goes to line 218
Drain ==
    /\ pc = "drain"
    /\ IF current_batch # << >>
       THEN \E outcome \in AllowedOutcomes(current_batch, total_messages) :
               /\ Flush(current_batch, total_messages, outcome)
               /\ pc' = IF outcome.kind = "ok" THEN "completed" ELSE "fatal"
       ELSE /\ pc' = "completed"
            /\ UNCHANGED << current_batch, output, flushlog >>
    /\ UNCHANGED << result, duration_seconds, elapsed, video_time, remaining,
                    seen_messages, total_messages, accepted, quits,
                    iterations, last_iteration, last_call, resolved >>

\* the driver quit at the end of the try block instead of in finally
Release_without_finally ==
    /\ pc \in {"completed", "fatal"}
    /\ quits' = quits + (IF pc = "completed" THEN 1 ELSE 0)
    /\ result' = IF pc = "completed" THEN "returned" ELSE "raised"
    /\ pc' = "released"
    /\ UNCHANGED << duration_seconds, elapsed, video_time, remaining, session,
                    output, iterations, flushlog, last_iteration, last_call,
                    resolved >>

\* a handler of line 218 that logs and does not re-raise
Release_swallowing ==
    /\ pc \in {"completed", "fatal"}
    /\ quits' = quits + 1
    /\ result' = "returned"
    /\ pc' = "released"
    /\ UNCHANGED << duration_seconds, elapsed, video_time, remaining, session,
                    output, iterations, flushlog, last_iteration, last_call,
                    resolved >>

\* lines 218-223: the handler re-raises; finally quits the driver
Release ==
    /\ pc \in {"completed", "fatal"}
    /\ quits' = quits + 1
    /\ result' = IF pc = "completed" THEN "returned" ELSE "raised"
    /\ pc' = "released"
    /\ UNCHANGED << duration_seconds, elapsed, video_time, remaining, session,
                    output, iterations, flushlog, last_iteration, last_call,
                    resolved >>

Next ==
    \/ OpenPage
    \/ GetVideoDuration
    \/ StartVideoPlayback
    \/ EnterChatFrame
    \/ PositionReadFails
    \/ ChatFrameLost
    \/ ListingFails
    \/ BeginIteration
    \/ ProcessChatMessage
    \/ EndIteration
    \/ LeaveLoop
    \/ Drain
    \/ Release

Spec == Init /\ [][Next]_vars


(***************************************************************************)
(* Properties                                                              *)
(***************************************************************************)
Polling == pc \in {"loop", "items"}

Triple(m) == << m.author, m.timestamp, m.message >>

SuccessfulFlushes == flushes - failed_flushes

HeaderCount(rows) == Cardinality({ i \in 1 .. Len(rows) : rows[i] = HEADER })

\* the rows a reader takes for data: all but a leading header
DataRows(rows) ==
    IF rows # << >> /\ rows[1] = HEADER THEN Tail(rows) ELSE rows

\* ceil(duration_seconds / POLL_INTERVAL)
IterationsOfDuration ==
    (duration_seconds + POLL_INTERVAL - 1) \div POLL_INTERVAL

\* C1 Dedup idempotence: of the candidates that share (author, timestamp,
\* message) at most one is accepted, whatever their video_time; every
\* accepted message is counted once in total_messages and its fingerprint
\* is in seen_messages.
C1_DedupIdempotence ==
    /\ \A i, j \in 1 .. Len(accepted) :
          Triple(accepted[i]) = Triple(accepted[j]) => i = j
    /\ total_messages = Len(accepted)
    /\ \A i \in 1 .. Len(accepted) : get_unique_id(accepted[i]) \in seen_messages

\* a candidate equal in its triple to an accepted message, presented at
\* another position, was rejected
C1_Witness ==
    /\ last_call.kind = "duplicate"
    /\ \E i \in 1 .. Len(accepted) :
          /\ Triple(accepted[i]) = Triple(last_call.message)
          /\ accepted[i].video_time # last_call.message.video_time

\* C2 Header-once: once a flush of the session has succeeded, the file
\* holds the header row exactly once, as its first row.
C2_HeaderOnce ==
    SuccessfulFlushes >= 1 =>
        /\ file_exists
        /\ file_rows # << >>
        /\ file_rows[1] = HEADER
        /\ HeaderCount(file_rows) = 1

C4_RowFidelity ==
    (pc = "completed" /\ accepted # << >>) =>
        /\ current_batch = << >>
        /\ file_exists
        /\ DataRows(file_rows) = Rows(accepted)

\* C5 Persistence errors are fatal: once a flush has failed the session is
\* over, and scrape ends by raising.
C5_FlushFailureFatal ==
    failed_flushes > 0 =>
        /\ pc \in {"fatal", "released"}
        /\ pc = "released" => result = "raised"

\* C6 Iteration-level exceptions never escape the loop: the polling loop
\* is left only by the elapsed >= duration check.
C6_LoopLeftByDurationOnly ==
    [][Polling => (Polling' \/ (pc' = "drain" /\ elapsed >= duration_seconds))]_vars

\* C7 Transient-failure tolerance: an iteration whose position read fails
\* does not end the loop, and an unseen readable candidate of a later
\* iteration is accepted with the position read in that iteration.
C7_PositionFailureTolerated ==
    [][/\ (Polling /\ last_iteration' = "position_failed"
                   /\ iterations' = iterations + 1) => Polling'
       /\ (pc = "items" /\ remaining' = remaining - 1
                        /\ last_call'.kind = "accepted")
            => /\ last_call'.message.video_time = video_time
               /\ accepted' = Append(accepted, last_call'.message)]_vars

\* C8 Termination bound: until it is left for the final drain the loop has
\* run at most ceil(duration / interval) + c iterations, here with c = 2.
C8_IterationBound ==
    (Polling \/ pc = "drain") => iterations <= IterationsOfDuration + 2

\* C9 Guaranteed cleanup: scrape has ended exactly when driver.quit has
\* been called, it is called once, and no step runs after it.
C9_GuaranteedCleanup ==
    /\ [](/\ quits \in {0, 1}
          /\ (result # "running") <=> (quits = 1)
          /\ (pc = "released") <=> (quits = 1))
    /\ [][quits = 0]_vars

\* the driver was released after a failed final flush
C9_Witness ==
    /\ pc = "released"
    /\ result = "raised"
    /\ failed_flushes > 0
    /\ iterations > 0
    /\ quits = 1

\* C10 Default duration: when the duration cannot be determined
\* get_video_duration answers 14400 without raising, the session goes on
\* to start playback, and its loop is left no sooner than 14400 seconds.
C10_DefaultDuration ==
    /\ []((Polling /\ ~resolved) => duration_seconds = DEFAULT_DURATION)
    /\ [][pc = "duration" =>
            /\ pc' = "playback"
            /\ ~resolved' => duration_seconds' = DEFAULT_DURATION]_vars
    /\ [][(~resolved /\ pc = "loop" /\ pc' = "drain")
            => elapsed >= DEFAULT_DURATION]_vars

\* polling under the default duration
C10_Witness ==
    /\ ~resolved
    /\ pc = "items"
    /\ duration_seconds = DEFAULT_DURATION

\* where every step is a call of process_chat_message on the next entry
ProcessStep == pc = "items" /\ remaining > 0

\* a step that calls write_batch_to_csv
FlushStep == flushes' = flushes + 1

\* the output file as __init__ found it
FileUntouched ==
    \/ ~file_exists /\ file_rows = << >>
    \/ file_exists /\ file_rows = OLD_ROWS

\* C11 Setup errors are fatal and leave no output: a failure to start
\* playback or to find the chat frame aborts scrape at once; from there the
\* driver is released and scrape raises, with no iteration run, no message
\* accepted and the output file neither created nor modified.
C11_SetupFailureFatal ==
    /\ [][(pc = "playback" \/ pc = "frame") =>
            \/ pc' = (IF pc = "playback" THEN "frame" ELSE "loop")
            \/ /\ pc' = "fatal"
               /\ UNCHANGED << session, output, iterations, flushlog, quits >>]_vars
    /\ [][(pc = "fatal") =>
            /\ pc' = "released"
            /\ result' = "raised"
            /\ quits' = quits + 1
            /\ UNCHANGED << session, output, iterations, flushlog >>]_vars
    /\ []((pc \in {"open", "duration", "playback", "frame"}
             \/ (pc \in {"fatal", "released"} /\ last_iteration = "none"
                                               /\ flushes = 0))
            => /\ iterations = 0
               /\ accepted = << >>
               /\ total_messages = 0
               /\ seen_messages = {}
               /\ current_batch = << >>
               /\ FileUntouched)

\* scrape raised out of STARTING, after the duration was read, with a file
\* of an earlier run left as it was
C11_Witness ==
    /\ pc = "released"
    /\ result = "raised"
    /\ quits = 1
    /\ duration_seconds > 0
    /\ last_iteration = "none"
    /\ flushes = 0
    /\ file_exists
    /\ file_rows = OLD_ROWS

\* C12 Flush is all-or-nothing: a call of write_batch_to_csv that raises
\* leaves the file as it was and the batch as it was handed over; a call
\* that succeeds has written every message of the batch and cleared it.
C12_FlushAllOrNothing ==
    [][FlushStep =>
        LET handed == IF Len(accepted') > Len(accepted)
                      THEN Append(current_batch, accepted'[Len(accepted')])
                      ELSE current_batch
            n == Len(file_rows')
        IN  IF failed_flushes' > failed_flushes
            THEN /\ UNCHANGED output
                 /\ current_batch' = handed
            ELSE /\ current_batch' = << >>
                 /\ file_exists'
                 /\ n >= Len(handed)
                 /\ SubSeq(file_rows', n - Len(handed) + 1, n) = Rows(handed)]_vars

\* C13 Rejection has no side effect: a candidate whose fingerprint is in
\* seen_messages leaves seen_messages, current_batch, total_messages and
\* the file as they were, and triggers no flush.
C13_RejectionNoSideEffect ==
    [][(ProcessStep /\ last_call'.kind = "duplicate") =>
        /\ get_unique_id(last_call'.message) \in seen_messages
        /\ UNCHANGED << session, output, flushlog >>]_vars

\* a candidate was rejected while the batch, kept by a failed flush, was
\* at capacity
C13_Witness ==
    /\ pc = "items"
    /\ last_call.kind = "duplicate"
    /\ get_unique_id(last_call.message) \in seen_messages
    /\ Len(current_batch) >= BATCH_SIZE

\* C14 Batch capacity invariant: while polling (at iteration boundaries and
\* after each return of process_chat_message) the batch holds fewer than
\* BATCH_SIZE messages, and it never holds more than BATCH_SIZE.
C14_BatchCapacity ==
    /\ Polling => Len(current_batch) < BATCH_SIZE
    /\ Len(current_batch) <= BATCH_SIZE

\* C15 Per-entry isolation: an entry whose fields cannot be read changes
\* no state and leaves the iteration on its list, off the recovery path;
\* every readable entry of the list, before or after it, is accepted
\* unless its fingerprint has been seen.
C15_PerEntryIsolation ==
    [][ProcessStep =>
        /\ pc' = "items"
        /\ remaining' = remaining - 1
        /\ UNCHANGED << iterations, last_iteration, video_time, elapsed >>
        /\ last_call'.kind = "unreadable" =>
              UNCHANGED << session, output, flushlog >>
        /\ last_call'.kind = "duplicate" =>
              get_unique_id(last_call'.message) \in seen_messages
        /\ last_call'.kind = "accepted" =>
              accepted' = Append(accepted, last_call'.message)]_vars

\* in the first iteration the first entry could not be read, nothing has
\* changed and the next entry is still to be processed
C15_Witness ==
    /\ pc = "items"
    /\ iterations = 1
    /\ last_iteration = "listed"
    /\ last_call.kind = "unreadable"
    /\ remaining > 0
    /\ accepted = << >>

\* the elements of a sequence
Range(seq) == { seq[i] : i \in 1 .. Len(seq) }

\* C16 Position stamping: a message is accepted the first time a readable
\* candidate with its fingerprint is observed, with the position read in
\* that iteration as its video_time; the position does not change while
\* the list is processed, and no later observation changes a message that
\* is stored, buffered or persisted.
C16_PositionStamping ==
    /\ [][ProcessStep =>
            /\ video_time' = video_time
            /\ last_call'.message.video_time = video_time
            /\ last_call'.kind = "accepted" =>
                  /\ get_unique_id(last_call'.message) \notin seen_messages
                  /\ accepted' = Append(accepted, last_call'.message)
            /\ last_call'.kind # "unreadable" =>
                  get_unique_id(last_call'.message) \in seen_messages'
            /\ last_call'.kind # "accepted" =>
                  UNCHANGED << accepted, current_batch, output >>]_vars
    /\ [][/\ Len(accepted') >= Len(accepted)
          /\ \A i \in 1 .. Len(accepted) : accepted'[i] = accepted[i]]_vars
    /\ [](/\ Range(current_batch) \subseteq Range(accepted)
          /\ Range(file_rows) \subseteq
                {HEADER} \cup Range(OLD_ROWS) \cup Range(Rows(accepted)))

\* a message persisted with the position of its first observation was
\* observed again, unchanged, in a later iteration at another position
C16_Witness ==
    /\ pc = "items"
    /\ iterations >= 2
    /\ last_call.kind = "duplicate"
    /\ last_call.message.video_time = video_time
    /\ \E i \in 1 .. Len(accepted) :
          /\ Triple(accepted[i]) = Triple(last_call.message)
          /\ accepted[i].video_time # video_time
          /\ to_csv_row(accepted[i]) \in Range(file_rows)

\* C17 Monotonic session state: no step of a session removes an element of
\* seen_messages or lowers total_messages.
C17_MonotonicSession ==
    [][/\ seen_messages \subseteq seen_messages'
       /\ total_messages' >= total_messages]_vars

\* a flush has cleared the batch and the set and the count are kept
C17_Witness ==
    /\ Polling
    /\ SuccessfulFlushes >= 1
    /\ current_batch = << >>
    /\ total_messages = BATCH_SIZE
    /\ Cardinality(seen_messages) = BATCH_SIZE

\* a row of the file that is neither the header nor a row of an earlier run
IsSessionRow(row) == row \notin ({HEADER} \cup Range(OLD_ROWS))

\* the data rows this session has written
SessionRows == SelectSeq(file_rows, IsSessionRow)

\* C18 Conservation of accepted messages: while polling, total_messages is
\* the size of seen_messages and the number of accepted messages, and the
\* data rows the session has written, followed by the batch, are the
\* accepted messages in admission order.
C18_Conservation ==
    Polling =>
        /\ total_messages = Cardinality(seen_messages)
        /\ total_messages = Len(accepted)
        /\ SessionRows \o Rows(current_batch) = Rows(accepted)

\* C19 Fingerprint injectivity: a readable candidate whose (author,
\* timestamp, message) differs from that of every accepted message is
\* accepted; only a candidate equal in its triple to an accepted message
\* is rejected.
C19_FingerprintInjective ==
    [][(ProcessStep /\ last_call'.kind = "duplicate") =>
        \E i \in 1 .. Len(accepted) :
            Triple(accepted[i]) = Triple(last_call'.message)]_vars

\* C20 No self-truncation: once a flush of the session has succeeded,
\* every later flush runs with total_messages above BATCH_SIZE, so in
\* append mode, and keeps every row the file holds; no other step touches
\* the file.
C20_NoSelfTruncation ==
    /\ [][(FlushStep /\ SuccessfulFlushes >= 1) =>
            /\ total_messages' > BATCH_SIZE
            /\ file_exists'
            /\ Len(file_rows') >= Len(file_rows)
            /\ SubSeq(file_rows', 1, Len(file_rows)) = file_rows]_vars
    /\ [][FlushStep \/ UNCHANGED output]_vars

\* two flushes have succeeded and the rows of the first are still there
C20_Witness ==
    /\ SuccessfulFlushes >= 2
    /\ failed_flushes = 0
    /\ Len(accepted) > BATCH_SIZE
    /\ file_rows = << HEADER >> \o Rows(accepted)

=============================================================================
